---- MODULE Spec2Model ----
(***************************************************************************)
(* SkillSync client workflow: App (view, role, results, toast), the        *)
(* UploadForm (two file slots, inline size error), the Dropzone file gate, *)
(* the Toast auto-dismiss timer and the fetch requests started by          *)
(* handleAnalyze.  React state lives in variables; a component that is not *)
(* rendered is unmounted and its state is gone (the exit animation of      *)
(* AnimatePresence is taken as instantaneous).                             *)
(***************************************************************************)
EXTENDS Integers, Sequences, FiniteSets, Bags, TLC

VARIABLES
  view,        \* App: "idle" | "upload" | "loading" | "results"
  role,        \* App: NULL | "recruiter" | "applier"
  results,     \* App: NONE or the parsed body of a 2xx response
  toast,       \* App: NONE or [message, type]
  toastTimer,  \* Toast: ms left on the pending setTimeout(onClose), or NoTimer
  resumeFile,  \* UploadForm: NULL or a file
  jdFile,      \* UploadForm: NULL or a file
  sizeError,   \* UploadForm: NULL or the inline size-error message
  sizeTimers,  \* UploadForm: ms left on each pending setTimeout(setSizeError(null))
  inflight,    \* fetch calls of handleAnalyze that have not settled: the FormData sent
  crashed,     \* a render threw: React has unmounted the whole tree
  lastEvent,   \* history: the handler or callback that ran last
  isDark,      \* App state isDark (the dark class of the document)
  storedTheme,   \* localStorage["skillsync-theme"]
  circularScore  \* CircularScore: score, start, animated, the frame requested, the clock

vars == <<view, role, results, toast, toastTimer, resumeFile, jdFile,
          sizeError, sizeTimers, inflight, crashed, lastEvent, isDark, storedTheme, circularScore>>

\* ---- bounds -------------------------------------------------------------
MaxInFlight == 2     \* requests that may be pending at once in the model
MaxTimers == 2       \* pending size-error timeouts kept in the model
FrameMs == 100       \* granularity of the frame timestamps
MaxTimestamp == 16   \* last frame timestamp of the model, in units of FrameMs
TickMs == 2500       \* granularity of the clock

\* ---- values -------------------------------------------------------------
NULL == "null"                 \* JS null for string-valued state
NONE == [null |-> TRUE]        \* JS null for object-valued state
NoTimer == -1

Roles == {"recruiter", "applier"}
Views == {"idle", "upload", "loading", "results"}

MAX_FILE_SIZE == 1048576
SizeErrorMs == 5000
ToastMs == 5000

PDF == "application/pdf"

\* Candidate files a user may pick: a PDF of exactly the size limit, a PDF one
\* byte over it, a small and a large non-PDF; "undefined" is an empty FileList.
Files == {"a.pdf", "big.pdf", "c.txt", "big.txt", "undefined"}

\* The same with a second, small PDF, to tell a replaced file from the old one.
AllFiles == Files \cup {"b.pdf"}

FileType(f) == IF f \in {"a.pdf", "b.pdf", "big.pdf"} THEN PDF ELSE "text/plain"

FileSize(f) ==
  CASE f = "a.pdf"   -> MAX_FILE_SIZE
    [] f = "b.pdf"   -> 1024
    [] f = "big.pdf" -> MAX_FILE_SIZE + 1
    [] f = "c.txt"   -> 10
    [] OTHER         -> 2 * MAX_FILE_SIZE

Slots == {"resume", "jd"}

MsgSize == "File is too large. Please upload a standard text-based PDF under 1MB."
MsgTransport == "Could not reach the server. Make sure the FastAPI backend is running."
Msg415 == "Invalid file type. Please upload PDF files only."
Msg422 == "Could not read one of the PDFs. Please ensure they contain selectable text."
MsgServer(status) == "Server error (" \o ToString(status) \o "). Please try again."
MsgDetail == "detail from the service"


\* ---- the service ----------------------------------------------------------
\* What a fetch can settle to: a rejection (no response), or a response with a
\* status and a body.
\* Percentages are numbers with a fraction (74.999): they are kept in
\* thousandths, so 75 is 75 * PctScale.
PctScale == 1000
PctSamples == {0, 50 * PctScale - 1, 50 * PctScale, 75 * PctScale - 1, 75 * PctScale, 100 * PctScale}

\* Bodies: not JSON (or absent), JSON null, {}, {detail: "..."}, {detail: ""},
\* and a report.
Statuses == {200, 415, 422, 500, 503}
Bodies == {"nonjson", "null", "empty", "detail", "emptydetail", "result"}
Response(s, b) == [kind |-> "response", status |-> s, body |-> b, pct |-> 82 * PctScale]
Rejected == [kind |-> "reject", status |-> 0, body |-> "nonjson", pct |-> 0]
Outcomes == {Rejected,
             Response(200, "result"), Response(200, "null"), Response(200, "nonjson"),
             Response(200, "empty"), Response(415, "empty"), Response(422, "nonjson"),
             Response(500, "nonjson"), Response(500, "detail"), Response(500, "null")}

\* Every status with every body, and reports over the sampled percentages.
AllOutcomes ==
  {Rejected}
  \cup {Response(s, b) : s \in Statuses, b \in Bodies}
  \cup {[Response(200, "result") EXCEPT !.pct = p] : p \in PctSamples}

ResponseOk(o) == o.status >= 200 /\ o.status <= 299

\* The report the service computes for a request sent with role r.
ResultFor(r, pct) ==
  [keys |-> {"match_percentage", "matched_skills", "missing_skills"}
            \cup (IF r = "recruiter" THEN {"hire_summary"} ELSE {})
            \cup (IF r = "applier" THEN {"basic_improvements"} ELSE {}),
   match_percentage |-> pct,
   detail |-> ""]

\* response.json(): rejects when the body is not JSON, else yields the parsed body.
JsonThrows(o) == o.body = "nonjson"

ParseJson(o, req) ==
  CASE o.body = "null"        -> NONE
    [] o.body = "empty"       -> [keys |-> {}, match_percentage |-> 0, detail |-> ""]
    [] o.body = "detail"      -> [keys |-> {"detail"}, match_percentage |-> 0, detail |-> MsgDetail]
    [] o.body = "emptydetail" -> [keys |-> {"detail"}, match_percentage |-> 0, detail |-> ""]
    [] OTHER                  -> ResultFor(req.role, o.pct)

\* scoreColor with > for >=.
scoreColor_exclusive(pct) ==
  IF pct > 75 * PctScale THEN "Strong Match"
  ELSE IF pct > 50 * PctScale THEN "Moderate Match"
  ELSE "Weak Match"

\* scoreColor(pct).label of the results dashboard.
scoreColor(pct) ==
  IF pct >= 75 * PctScale THEN "Strong Match"
  ELSE IF pct >= 50 * PctScale THEN "Moderate Match"
  ELSE "Weak Match"

\* ---- rendering --------------------------------------------------------------
isLoading == view = "loading"

\* canSubmit without the !isLoading conjunct.
canSubmit_ignoresLoading == resumeFile # NULL /\ jdFile # NULL

canSubmit == resumeFile # NULL /\ jdFile # NULL /\ ~isLoading

\* UploadForm is rendered for view upload/loading, ResultsDashboard for view
\* results with a truthy results object.
FormRendered(v) == v \in {"upload", "loading"}
DashboardRendered(v, res) == v = "results" /\ res # NONE

\* UploadForm reads ROLE_META[role].badge: a TypeError unless role is a key.
FormThrows(r) == r \notin Roles

\* ResultsDashboard calls match_percentage.toFixed and reads the length of
\* matched_skills and missing_skills: a TypeError when one is undefined.
DashboardThrows(res) ==
  ~({"match_percentage", "matched_skills", "missing_skills"} \subseteq res.keys)

\* The role-specific section of ResultsDashboard:
\* isRecruiter && hire_summary ? HireSummaryCard
\*   : !isRecruiter && basic_improvements ? ImprovementsCard : null.
HireSummaryCardShown(r, res) == r = "recruiter" /\ "hire_summary" \in res.keys

ImprovementsCardShown(r, res) ==
  /\ ~HireSummaryCardShown(r, res)
  /\ r # "recruiter"
  /\ "basic_improvements" \in res.keys

\* A render of App that throws; React then unmounts the whole tree.
RenderThrows(v, r, res) ==
  \/ FormRendered(v) /\ FormThrows(r)
  \/ DashboardRendered(v, res) /\ DashboardThrows(res)

\* App re-renders after a handler has set view', role', results', toast': when a
\* setter was given a fresh object (fresh) or a value that differs.  Toast's
\* effect depends on onClose, a new closure on every App render, so any App
\* render restarts the 5 s timer; Toast unmounting clears it.
AppRender(fresh) ==
  /\ crashed' = RenderThrows(view', role', results')
  /\ toastTimer' = IF crashed' \/ toast' = NONE THEN NoTimer
                   ELSE IF fresh \/ <<view', role', results'>> # <<view, role, results>>
                        THEN ToastMs
                        ELSE toastTimer

\* UploadForm keeps its state while it stays rendered (upload and loading share
\* one instance) and loses it, with its timers' effect, when unmounted.
FormRender(rf, jf, se, st) ==
  LET mounted == FormRendered(view') /\ ~crashed' IN
  /\ resumeFile' = IF mounted THEN rf ELSE NULL
  /\ jdFile' = IF mounted THEN jf ELSE NULL
  /\ sizeError' = IF mounted THEN se ELSE NULL
  /\ sizeTimers' = IF mounted THEN st ELSE <<>>

FormKept == FormRender(resumeFile, jdFile, sizeError, sizeTimers)

\* ---- App handlers -------------------------------------------------------------
\* showToast keeping the toast already on display.
showToast_keepsFirst(message) ==
  toast' = IF toast = NONE THEN [message |-> message, type |-> "error"] ELSE toast

showToast(message) == toast' = [message |-> message, type |-> "error"]

\* handleRoleSelect without its setView("upload").
handleRoleSelect_noSetView(selectedRole) ==
  /\ role' = selectedRole
  /\ UNCHANGED <<view, results, toast, inflight>>
  /\ AppRender(FALSE)
  /\ FormKept

handleRoleSelect(selectedRole) ==
  /\ role' = selectedRole
  /\ view' = "upload"
  /\ UNCHANGED <<results, toast, inflight>>
  /\ AppRender(FALSE)
  /\ FormKept

\* handleAnalyze calling fetch twice.
handleAnalyze_sendsTwice(resume, jd) ==
  /\ BagCardinality(inflight) < MaxInFlight
  /\ view' = "loading"
  /\ inflight' = inflight (+) [r \in {[role |-> role, resume |-> resume, job_description |-> jd]} |-> 2]
  /\ UNCHANGED <<role, results, toast>>
  /\ AppRender(FALSE)
  /\ FormKept

handleAnalyze(resume, jd) ==
  /\ BagCardinality(inflight) < MaxInFlight
  /\ view' = "loading"
  /\ inflight' = inflight (+) SetToBag({[role |-> role, resume |-> resume, job_description |-> jd]})
  /\ UNCHANGED <<role, results, toast>>
  /\ AppRender(FALSE)
  /\ FormKept

\* errorData.detail || (message by status): an absent or empty detail is falsy.
ErrorMessage(o, errorData) ==
  IF "detail" \in errorData.keys /\ errorData.detail # "" THEN errorData.detail
  ELSE IF o.status = 415 THEN Msg415
  ELSE IF o.status = 422 THEN Msg422
  ELSE MsgServer(o.status)

\* The catch branch without its setView("upload").
Catch_staysLoading ==
  /\ showToast(MsgTransport)
  /\ UNCHANGED <<view, results>>

Catch ==
  /\ showToast(MsgTransport)
  /\ view' = "upload"
  /\ UNCHANGED results

\* The request resolves Success when a 2xx response carries a JSON body.
Succeeds(o) == o.kind = "response" /\ ResponseOk(o) /\ ~JsonThrows(o)

\* The part of handleAnalyze after the awaits, for request req settling as o.
Settle(req, o) ==
  LET      \* response.json().catch(() => ({}))
    errorData == IF JsonThrows(o) THEN [keys |-> {}, match_percentage |-> 0, detail |-> ""]
                 ELSE ParseJson(o, req)
  IN
  /\ inflight' = inflight (-) SetToBag({req})
  /\ UNCHANGED role
  /\ IF o.kind = "reject" THEN Catch
     ELSE IF ~ResponseOk(o)
          THEN IF errorData = NONE THEN Catch    \* null.detail throws a TypeError
               ELSE /\ showToast(ErrorMessage(o, errorData))
                    /\ view' = "upload"
                    /\ UNCHANGED results
     ELSE IF JsonThrows(o) THEN Catch
     ELSE /\ results' = ParseJson(o, req)
          /\ view' = "results"
          /\ UNCHANGED toast
  /\ AppRender(TRUE)
  /\ FormKept

\* handleReset without its setResults(null).
handleReset_keepsResults ==
  /\ view' = "idle"
  /\ role' = NULL
  /\ UNCHANGED <<results, toast, inflight>>
  /\ AppRender(FALSE)
  /\ FormKept

handleReset ==
  /\ view' = "idle"
  /\ role' = NULL
  /\ results' = NONE
  /\ UNCHANGED <<toast, inflight>>
  /\ AppRender(FALSE)
  /\ FormKept

onClose ==
  /\ toast' = NONE
  /\ UNCHANGED <<view, role, results, inflight>>
  /\ AppRender(FALSE)
  /\ FormKept

\* ---- UploadForm handlers ------------------------------------------------------
showSizeToast(message) ==
  /\ Len(sizeTimers) < MaxTimers
  /\ FormRender(resumeFile, jdFile, message, Append(sizeTimers, SizeErrorMs))

\* handleSubmit without the canSubmit test.
handleSubmit_unguarded == handleAnalyze(resumeFile, jdFile)

handleSubmit ==
  IF canSubmit THEN handleAnalyze(resumeFile, jdFile)
  ELSE UNCHANGED <<view, role, results, toast, toastTimer, resumeFile, jdFile,
                   sizeError, sizeTimers, inflight, crashed>>

\* handleFile testing the size before the type.
handleFile_sizeFirst(s, f) ==
  /\ UNCHANGED <<view, role, results, toast, toastTimer, inflight, crashed>>
  /\ IF f = "undefined" THEN FormKept
     ELSE IF FileSize(f) > MAX_FILE_SIZE THEN showSizeToast(MsgSize)
     ELSE IF FileType(f) # PDF THEN FormKept
     ELSE IF s = "resume" THEN FormRender(f, jdFile, sizeError, sizeTimers)
     ELSE FormRender(resumeFile, f, sizeError, sizeTimers)

\* handleFile without the size test.
handleFile_noSizeCheck(s, f) ==
  /\ UNCHANGED <<view, role, results, toast, toastTimer, inflight, crashed>>
  /\ IF f = "undefined" THEN FormKept
     ELSE IF FileType(f) # PDF THEN FormKept
     ELSE IF s = "resume" THEN FormRender(f, jdFile, sizeError, sizeTimers)
     ELSE FormRender(resumeFile, f, sizeError, sizeTimers)

\* handleFile refusing a file of exactly MAX_FILE_SIZE bytes (>= for >).
handleFile_strictLimit(s, f) ==
  /\ UNCHANGED <<view, role, results, toast, toastTimer, inflight, crashed>>
  /\ IF f = "undefined" THEN FormKept
     ELSE IF FileType(f) # PDF THEN FormKept
     ELSE IF FileSize(f) >= MAX_FILE_SIZE THEN showSizeToast(MsgSize)
     ELSE IF s = "resume" THEN FormRender(f, jdFile, sizeError, sizeTimers)
     ELSE FormRender(resumeFile, f, sizeError, sizeTimers)

\* Dropzone.handleFile for the dropzone of slot s.
handleFile(s, f) ==
  /\ UNCHANGED <<view, role, results, toast, toastTimer, inflight, crashed>>
  /\ IF f = "undefined" THEN FormKept
     ELSE IF FileType(f) # PDF THEN FormKept
     ELSE IF FileSize(f) > MAX_FILE_SIZE THEN showSizeToast(MsgSize)
     ELSE IF s = "resume" THEN FormRender(f, jdFile, sizeError, sizeTimers)
     ELSE FormRender(resumeFile, f, sizeError, sizeTimers)

\* onDrop / onInputChange: nothing reaches handleFile while disabled.
onFile(s, f) ==
  IF isLoading
  THEN UNCHANGED <<view, role, results, toast, toastTimer, resumeFile, jdFile,
                   sizeError, sizeTimers, inflight, crashed>>
  ELSE handleFile(s, f)

\* ---- timers -------------------------------------------------------------------
Elapse(t) == IF t > TickMs THEN t - TickMs ELSE 0

TimerDue == toastTimer = 0 \/ (\E k \in 1..Len(sizeTimers) : sizeTimers[k] = 0)


\* ---- the score animation of CircularScore -------------------------------------
\* Frame timestamps are counted in units of FrameMs; start = 0 stands for the
\* null (falsy) start, and frames arrive at positive timestamps.  animated is
\* kept as the numerator of a fraction over duration^3.
duration == 1100 \div FrameMs

Cube(x) == x * x * x

\* No dashboard has been mounted.
NoCircle == [score |-> 0, start |-> 0, animated |-> 0, pending |-> FALSE, now |-> 0]

\* The effect on [score] at mount: requestAnimationFrame(step).
MountCircle(score, now) ==
  [score |-> score, start |-> 0, animated |-> 0, pending |-> TRUE, now |-> now]

\* step without the Math.min that caps progress at 1.
step_noClamp(c, timestamp) ==
  LET start == IF c.start = 0 THEN timestamp ELSE c.start
      progress == timestamp - start
      eased == Cube(duration) - Cube(duration - progress)
  IN [score |-> c.score, start |-> start, animated |-> eased * c.score,
      pending |-> progress < duration, now |-> timestamp]

\* step(timestamp) of the effect.
step(c, timestamp) ==
  LET start == IF c.start = 0 THEN timestamp ELSE c.start
      elapsed == timestamp - start
      \* progress = Math.min(elapsed / duration, 1), as elapsed capped at duration
      progress == IF elapsed >= duration THEN duration ELSE elapsed
      \* eased = 1 - Math.pow(1 - progress, 3), over duration^3
      eased == Cube(duration) - Cube(duration - progress)
  IN [score |-> c.score, start |-> start, animated |-> eased * c.score,
      pending |-> progress < duration, now |-> timestamp]

\* ---- the state machine ----------------------------------------------------------
\* A first visit (no stored theme) on a system that prefers the light theme;
\* the effect on isDark has stored the theme.
Init ==
  /\ view = "idle"
  /\ role = NULL
  /\ results = NONE
  /\ toast = NONE
  /\ toastTimer = NoTimer
  /\ resumeFile = NULL
  /\ jdFile = NULL
  /\ sizeError = NULL
  /\ sizeTimers = <<>>
  /\ inflight = EmptyBag
  /\ crashed = FALSE
  /\ lastEvent = "init"
  /\ isDark = FALSE
  /\ storedTheme = "light"
  /\ circularScore = NoCircle

\* A role button of the Hero, which is rendered in every view.
SelectRole(r) ==
  /\ ~crashed
  /\ handleRoleSelect(r)
  /\ UNCHANGED <<isDark, storedTheme, circularScore>>
  /\ lastEvent' = "SelectRole"

\* A file dropped on or chosen in the dropzone of slot s.
SelectFile(s, f) ==
  /\ ~crashed
  /\ FormRendered(view)
  /\ onFile(s, f)
  /\ UNCHANGED <<isDark, storedTheme, circularScore>>
  /\ lastEvent' = "SelectFile"

\* The submit handler of the upload form.
Submit ==
  /\ ~crashed
  /\ FormRendered(view)
  /\ handleSubmit
  /\ UNCHANGED <<isDark, storedTheme, circularScore>>
  /\ lastEvent' = "Submit"

\* The fetch of request req settles as o and handleAnalyze resumes.
Resolve(req, o) ==
  /\ ~crashed
  /\ Settle(req, o)
  /\ UNCHANGED <<isDark, storedTheme, circularScore>>
  /\ lastEvent' = IF Succeeds(o) THEN "Success" ELSE "Failure"

\* "Back to Roles" (disabled while loading) or "Analyze Another Resume".
Reset ==
  /\ ~crashed
  /\ \/ FormRendered(view) /\ ~isLoading
     \/ DashboardRendered(view, results)
  /\ handleReset
  /\ UNCHANGED <<isDark, storedTheme, circularScore>>
  /\ lastEvent' = "Reset"

\* The dismiss button of the toast.
DismissToast ==
  /\ ~crashed
  /\ toast # NONE
  /\ onClose
  /\ UNCHANGED <<isDark, storedTheme, circularScore>>
  /\ lastEvent' = "DismissToast"

\* Toast's setTimeout(onClose, 5000) fires.
ToastTimeout ==
  /\ ~crashed
  /\ toastTimer = 0
  /\ onClose
  /\ UNCHANGED <<isDark, storedTheme, circularScore>>
  /\ lastEvent' = "ToastTimeout"

\* The oldest setTimeout(() => setSizeError(null), 5000) of the form fires.
SizeTimeout ==
  /\ ~crashed
  /\ sizeTimers # <<>>
  /\ Head(sizeTimers) = 0
  /\ UNCHANGED <<view, role, results, toast, toastTimer, inflight, crashed>>
  /\ FormRender(resumeFile, jdFile, NULL, Tail(sizeTimers))
  /\ UNCHANGED <<isDark, storedTheme, circularScore>>
  /\ lastEvent' = "SizeTimeout"

\* TickMs of time pass; a timer that is due fires first.
Tick ==
  /\ ~crashed
  /\ ~TimerDue
  /\ toastTimer # NoTimer \/ sizeTimers # <<>>
  /\ toastTimer' = IF toastTimer = NoTimer THEN NoTimer ELSE Elapse(toastTimer)
  /\ sizeTimers' = [k \in 1..Len(sizeTimers) |-> Elapse(sizeTimers[k])]
  /\ UNCHANGED <<view, role, results, toast, resumeFile, jdFile, sizeError, inflight, crashed>>
  /\ UNCHANGED <<isDark, storedTheme, circularScore>>
  /\ lastEvent' = "Tick"

\* The theme switch remounting the upload form (its state is lost).
ToggleDark_remountsForm ==
  /\ ~crashed
  /\ isDark' = ~isDark
  /\ storedTheme' = IF isDark' THEN "dark" ELSE "light"
  /\ UNCHANGED <<view, role, results, toast, inflight>>
  /\ AppRender(TRUE)
  /\ FormRender(NULL, NULL, NULL, <<>>)
  /\ UNCHANGED circularScore
  /\ lastEvent' = "ToggleDark"

\* The theme switch of the Navbar: setIsDark(d => !d); the effect on isDark
\* writes the class and the stored preference, and App renders again.
ToggleDark ==
  /\ ~crashed
  /\ isDark' = ~isDark
  /\ storedTheme' = IF isDark' THEN "dark" ELSE "light"
  /\ UNCHANGED <<view, role, results, toast, inflight>>
  /\ AppRender(TRUE)
  /\ FormKept
  /\ UNCHANGED circularScore
  /\ lastEvent' = "ToggleDark"

Next ==
  \/ \E r \in Roles : SelectRole(r)
  \/ \E s \in Slots, f \in Files : SelectFile(s, f)
  \/ Submit
  \/ \E o \in Outcomes : \E req \in BagToSet(inflight) : Resolve(req, o)
  \/ Reset
  \/ DismissToast
  \/ ToastTimeout
  \/ SizeTimeout
  \/ Tick

Spec == Init /\ [][Next]_vars

\* The fetch API settles every request it was given.
FairSpec ==
  Spec /\ WF_vars(\E o \in Outcomes : \E req \in BagToSet(inflight) : Resolve(req, o))

\* The same handlers within the 5 s of the timers (no timeout fires), with every
\* status and every body of the service.
NextService ==
  \/ \E r \in Roles : SelectRole(r)
  \/ \E s \in Slots, f \in Files : SelectFile(s, f)
  \/ Submit
  \/ \E o \in AllOutcomes : \E req \in BagToSet(inflight) : Resolve(req, o)
  \/ Reset
  \/ DismissToast

SpecService == Init /\ [][NextService]_vars

\* The same handlers within the 5 s of the timers, with the second PDF; the
\* service either is unreachable or answers with a report.
GateOutcomes == {Rejected, Response(200, "result")}

NextGate ==
  \/ \E r \in Roles : SelectRole(r)
  \/ \E s \in Slots, f \in AllFiles : SelectFile(s, f)
  \/ Submit
  \/ \E o \in GateOutcomes : \E req \in BagToSet(inflight) : Resolve(req, o)
  \/ Reset
  \/ DismissToast

SpecGate == Init /\ [][NextGate]_vars

\* Every handler and timer with the theme switch of the Navbar, from every
\* stored theme and system preference; the service either is unreachable or
\* answers with a report.  Spec and the specifications above leave the theme
\* switch alone.
InitTheme ==
  /\ view = "idle"
  /\ role = NULL
  /\ results = NONE
  /\ toast = NONE
  /\ toastTimer = NoTimer
  /\ resumeFile = NULL
  /\ jdFile = NULL
  /\ sizeError = NULL
  /\ sizeTimers = <<>>
  /\ inflight = EmptyBag
  /\ crashed = FALSE
  /\ lastEvent = "init"
  /\ \E saved \in {"", "dark", "light"}, prefersDark \in BOOLEAN :
       isDark = (IF saved # "" THEN saved = "dark" ELSE prefersDark)
  /\ storedTheme = IF isDark THEN "dark" ELSE "light"
  /\ circularScore = NoCircle

NextTheme ==
  \/ \E r \in Roles : SelectRole(r)
  \/ \E s \in Slots, f \in Files : SelectFile(s, f)
  \/ Submit
  \/ \E o \in GateOutcomes : \E req \in BagToSet(inflight) : Resolve(req, o)
  \/ Reset
  \/ DismissToast
  \/ ToastTimeout
  \/ SizeTimeout
  \/ Tick
  \/ ToggleDark

SpecTheme == InitTheme /\ [][NextTheme]_vars

\* The score animation of a dashboard that has just been mounted with a report
\* of some percentage: frames arrive at strictly advancing timestamps.
InitAnimation ==
  /\ view = "results"
  /\ role \in Roles
  /\ \E pct \in PctSamples, now \in 1..3 :
       /\ results = ResultFor(role, pct)
       /\ circularScore = MountCircle(pct, now)
  /\ toast = NONE
  /\ toastTimer = NoTimer
  /\ resumeFile = NULL
  /\ jdFile = NULL
  /\ sizeError = NULL
  /\ sizeTimers = <<>>
  /\ inflight = EmptyBag
  /\ crashed = FALSE
  /\ lastEvent = "Success"
  /\ isDark = FALSE
  /\ storedTheme = "light"

\* The browser runs the requested frame callback.
Frame(timestamp) ==
  /\ circularScore.pending
  /\ timestamp > circularScore.now
  /\ circularScore' = step(circularScore, timestamp)
  /\ lastEvent' = "Frame"
  /\ UNCHANGED <<view, role, results, toast, toastTimer, resumeFile, jdFile, sizeError,
                 sizeTimers, inflight, crashed, isDark, storedTheme>>

NextAnimation == \E timestamp \in 1..MaxTimestamp : Frame(timestamp)

SpecAnimation == InitAnimation /\ [][NextAnimation]_vars

TypeOK ==
  /\ view \in Views
  /\ role \in Roles \cup {NULL}
  /\ resumeFile \in AllFiles \cup {NULL}
  /\ jdFile \in AllFiles \cup {NULL}
  /\ BagCardinality(inflight) <= MaxInFlight
  /\ Len(sizeTimers) <= MaxTimers
  /\ crashed \in BOOLEAN
  /\ isDark \in BOOLEAN
  /\ storedTheme \in {"dark", "light"}


\* ---- claims -------------------------------------------------------------------

\* C1: in every reachable state at most one submission is in flight.
C1_AtMostOneInFlight == BagCardinality(inflight) <= 1

\* C2: view = Loading implies that exactly one submission is in flight.
C2_LoadingHasOneInFlight == view = "loading" => BagCardinality(inflight) = 1

\* C3: view = Results implies a non-null AnalysisResult and a non-null Role.
C3_ResultsHasResultAndRole == view = "results" => (results # NONE /\ role # NULL)

\* C4: every change of the view follows an edge of the transition table:
\* Idle->Upload by SelectRole, Upload->Loading by Submit, Loading->Results by
\* Success, Loading->Upload by Failure, Upload/Loading/Results->Idle by Reset.
C4_ViewFollowsTable ==
  [][view' # view =>
       \/ view = "idle" /\ view' = "upload" /\ lastEvent' = "SelectRole"
       \/ view = "upload" /\ view' = "loading" /\ lastEvent' = "Submit"
       \/ view = "loading" /\ view' = "results" /\ lastEvent' = "Success"
       \/ view = "loading" /\ view' = "upload" /\ lastEvent' = "Failure"
       \/ view \in {"upload", "loading", "results"} /\ view' = "idle" /\ lastEvent' = "Reset"]_vars

\* C5: a Reset taken from Upload, Loading or Results yields view = Idle,
\* Role = null, both file slots = null and AnalysisResult = null.
C5_ResetClearsWorkflow ==
  [][(lastEvent' = "Reset" /\ view \in {"upload", "loading", "results"}) =>
       /\ view' = "idle"
       /\ role' = NULL
       /\ resumeFile' = NULL
       /\ jdFile' = NULL
       /\ results' = NONE]_vars

\* A Reset has run after a failed submission: its notification is still shown
\* while the workflow state is cleared.
C5_Witness == lastEvent = "Reset" /\ view = "idle" /\ toast # NONE

\* C6: canSubmit is true iff both slots are occupied and view is not Loading.
C6_CanSubmitIff ==
  canSubmit <=> (resumeFile # NULL /\ jdFile # NULL /\ view # "loading")

\* Both slots are occupied while a request is loading: canSubmit is false there.
C6_Witness == resumeFile # NULL /\ jdFile # NULL /\ view = "loading" /\ ~crashed

\* C7: a Submit issued while canSubmit is false changes neither view, Role, the
\* file slots nor AnalysisResult, and starts no request.
C7_RejectedSubmitIsNoOp ==
  [][(lastEvent' = "Submit" /\ ~canSubmit) =>
       UNCHANGED <<view, role, resumeFile, jdFile, results, inflight, toast, crashed>>]_vars

\* A Submit has run in Upload with an empty job-description slot.
C7_Witness ==
  lastEvent = "Submit" /\ view = "upload" /\ resumeFile # NULL /\ jdFile = NULL

C9_NoAbortWhileLoading ==
  [][/\ (view = "loading" /\ view' # "loading") => lastEvent' \in {"Success", "Failure"}
     /\ inflight' # inflight => lastEvent' \in {"Submit", "Success", "Failure"}]_vars

\* C10: when a request resolves as a failure, view becomes Upload, an Error
\* notification is set, both slots hold the files that were submitted and
\* canSubmit is true again.
C10_FailureReturnsToRetry ==
  [][lastEvent' = "Failure" =>
       \E req \in BagToSet(inflight) :
         /\ inflight' = inflight (-) SetToBag({req})
         /\ view' = "upload"
         /\ toast' # NONE
         /\ toast'.type = "error"
         /\ resumeFile' = req.resume
         /\ jdFile' = req.job_description
         /\ canSubmit']_vars


\* C11: a response with a non-2xx status is reported with the detail text of its
\* body, verbatim, whenever the body has a detail field; without one, with the
\* PDF-only message for 415, the unreadable-PDF message for 422 and the
\* "Server error (<status>)" message for every other status.
C11_MessageByDetailThenStatus ==
  [][lastEvent' = "Failure" =>
       \A req \in BagToSet(inflight), o \in AllOutcomes :
         (o.kind = "response" /\ ~ResponseOk(o) /\ Resolve(req, o)) =>
           /\ toast' # NONE
           /\ toast'.message =
                IF o.body = "detail" THEN MsgDetail
                ELSE IF o.body = "emptydetail" THEN ""
                ELSE IF o.status = 415 THEN Msg415
                ELSE IF o.status = 422 THEN Msg422
                ELSE MsgServer(o.status)]_vars


\* C12: a 2xx response whose body is not a report is handled as a failure of
\* the service: the view returns to upload with an error notification, it does
\* not become results for that response, and no fault escapes the handler.
C12_Unreadable2xxIsFailure ==
  [][lastEvent' \in {"Success", "Failure"} =>
       \A req \in BagToSet(inflight), o \in AllOutcomes :
         (o.kind = "response" /\ ResponseOk(o) /\ o.body # "result" /\ Resolve(req, o)) =>
           /\ view' = "upload"
           /\ toast' # NONE
           /\ toast'.type = "error"
           /\ ~crashed']_vars

\* C13: when the fetch is rejected (no response arrived) the notification is
\* the could-not-reach-the-server message and the view returns to upload.
C13_TransportFailure ==
  [][lastEvent' = "Failure" =>
       \A req \in BagToSet(inflight) :
         Resolve(req, Rejected) =>
           /\ toast' = [message |-> MsgTransport, type |-> "error"]
           /\ view' = "upload"]_vars

\* A submission has failed with the transport message and the form is back.
C13_Witness ==
  /\ lastEvent = "Failure"
  /\ view = "upload"
  /\ ~crashed
  /\ toast # NONE
  /\ toast.message = MsgTransport

\* C14: an accepted Submit issues exactly one request, a refused Submit none,
\* the resolution of a request (success or failure) removes that request and
\* issues none, and no other step issues a request.
C14_OneRequestPerAcceptedSubmit ==
  [][/\ (lastEvent' = "Submit" /\ canSubmit) =>
          inflight' = inflight (+) SetToBag({[role |-> role, resume |-> resumeFile,
                                              job_description |-> jdFile]})
     /\ (lastEvent' = "Submit" /\ ~canSubmit) => inflight' = inflight
     /\ lastEvent' \in {"Success", "Failure"} =>
          /\ BagCardinality(inflight') = BagCardinality(inflight) - 1
          /\ \A r \in BagToSet(inflight') : CopiesIn(r, inflight') <= CopiesIn(r, inflight)
     /\ lastEvent' \notin {"Submit", "Success", "Failure"} => inflight' = inflight]_vars

\* A submission has failed, nothing was sent again, and the user may retry.
C14_Witness ==
  /\ lastEvent = "Failure"
  /\ inflight = EmptyBag
  /\ canSubmit
  /\ ~crashed


\* C15: given that every request settles, a loading view is always followed
\* by results or upload, and a settled submission leaves the user a way on:
\* the application is alive and a retry (Submit) or a reset is on offer.
C15_LoadingEndsRecoverable ==
  /\ (view = "loading") ~> (view \in {"results", "upload"})
  /\ [](lastEvent \in {"Success", "Failure"} =>
          /\ ~crashed
          /\ \/ canSubmit
             \/ FormRendered(view) /\ ~isLoading
             \/ DashboardRendered(view, results))


\* C16: a file whose type is not application/pdf, of any size, is ignored
\* silently: neither slot changes and no notification appears.
C16_NonPdfIsSilentNoOp ==
  [][lastEvent' = "SelectFile" =>
       \A s \in Slots, f \in AllFiles :
         (f # "undefined" /\ FileType(f) # PDF /\ SelectFile(s, f)) =>
           UNCHANGED <<resumeFile, jdFile, sizeError, sizeTimers, toast, view>>]_vars

\* A file was offered to the empty form and nothing was taken or shown.
C16_Witness ==
  /\ lastEvent = "SelectFile"
  /\ view = "upload"
  /\ resumeFile = NULL
  /\ jdFile = NULL
  /\ sizeError = NULL
  /\ sizeTimers = <<>>

\* C17: a PDF of more than 1,048,576 bytes offered to the upload form is
\* refused: the file-too-large message (1MB limit) is shown, both slots keep
\* what they held and the view stays upload.
C17_OversizePdfRejected ==
  [][(lastEvent' = "SelectFile" /\ view = "upload") =>
       \A s \in Slots, f \in AllFiles :
         (FileType(f) = PDF /\ FileSize(f) > 1048576 /\ SelectFile(s, f)) =>
           /\ sizeError' = MsgSize
           /\ UNCHANGED <<resumeFile, jdFile>>
           /\ view' = "upload"]_vars

\* The too-large message has just been raised and the slot filled before keeps
\* its file.
C17_Witness ==
  /\ lastEvent = "SelectFile"
  /\ view = "upload"
  /\ sizeError = MsgSize
  /\ sizeTimers # <<>>
  /\ sizeTimers[Len(sizeTimers)] = SizeErrorMs
  /\ resumeFile = "a.pdf"
  /\ jdFile = NULL

\* C18: a PDF of at most 1,048,576 bytes (the limit included) offered to the
\* upload form is accepted: its slot then holds exactly that file, whatever it
\* held before, and the other slot is unchanged.
C18_SmallPdfAccepted ==
  [][(lastEvent' = "SelectFile" /\ view = "upload") =>
       \A s \in Slots, f \in AllFiles :
         (FileType(f) = PDF /\ FileSize(f) <= 1048576 /\ SelectFile(s, f)) =>
           /\ s = "resume" => (resumeFile' = f /\ jdFile' = jdFile)
           /\ s = "jd" => (jdFile' = f /\ resumeFile' = resumeFile)]_vars

\* The file of exactly the limit sits in one slot and the small one in the other.
C18_Witness ==
  /\ lastEvent = "SelectFile"
  /\ view = "upload"
  /\ resumeFile = "a.pdf"
  /\ jdFile = "b.pdf"


\* C19: the dashboard labels a match percentage Strong from 75 up, Moderate
\* from 50 up to but not including 75, and Weak below 50; 75 and 50 themselves
\* belong to the higher band.
C19_ScoreBands ==
  (DashboardRendered(view, results) /\ ~crashed) =>
    LET pct == results.match_percentage
        label == scoreColor(pct)
    IN /\ label = "Strong Match" <=> pct >= 75 * PctScale
       /\ label = "Moderate Match" <=> (pct >= 50 * PctScale /\ pct < 75 * PctScale)
       /\ label = "Weak Match" <=> pct < 50 * PctScale

\* The dashboard shows a report of exactly 75 percent.
C19_Witness ==
  /\ DashboardRendered(view, results)
  /\ ~crashed
  /\ results.match_percentage = 75 * PctScale
  /\ scoreColor(results.match_percentage) = "Strong Match"

\* C20 (as claimed): at most one notification is visible at any time, be it
\* the failure toast or the file-too-large message.
C20_OneNotificationLive == ~(~crashed /\ toast # NONE /\ sizeError # NULL)

\* C20 (amended): each of the two notification surfaces shows one message, and
\* a new one replaces the one on display: a failed submission puts its own
\* message in the toast with a fresh 5 s and leaves the size message alone, a
\* file-too-large rejection puts its message in the size banner and leaves
\* the toast alone.
C20_OneLivePerSurface ==
  [][/\ lastEvent' = "Failure" =>
          /\ toast' # NONE
          /\ crashed' \/ toastTimer' = ToastMs
          /\ crashed' \/ sizeError' = sizeError
          /\ \A req \in BagToSet(inflight) :
               /\ Resolve(req, Rejected) => toast'.message = MsgTransport
               /\ Resolve(req, Response(422, "nonjson")) => toast'.message = Msg422
     /\ (lastEvent' = "SelectFile" /\ sizeTimers' # sizeTimers) =>
          /\ sizeError' = MsgSize
          /\ toast' = toast
          /\ toastTimer' = toastTimer]_vars

\* A failure toast has arrived while the file-too-large message is on display.
C20_Witness ==
  /\ lastEvent = "Failure"
  /\ ~crashed
  /\ toast # NONE
  /\ sizeError = MsgSize

\* C21: a toast on display expires 5000 ms after it was shown unless it is
\* dismissed or replaced first, whatever else happens: while the same toast
\* stays on display, no step other than a new failure gives it more time.
C21_ToastExpiresOnSchedule ==
  [][(toast # NONE /\ toast' # NONE /\ ~crashed' /\ lastEvent' # "Failure") =>
       toastTimer' <= toastTimer]_vars

\* C22: in the results view the hire-summary card is shown only for the
\* recruiter role with a hire_summary in the report, the improvements card
\* only for the applier role with basic_improvements in the report, never both;
\* a recruiter's report with a hire_summary shows the hire-summary card alone.
C22_CardsFollowRole ==
  (DashboardRendered(view, results) /\ ~crashed) =>
    LET hire == HireSummaryCardShown(role, results)
        tips == ImprovementsCardShown(role, results)
    IN /\ hire => (role = "recruiter" /\ "hire_summary" \in results.keys)
       /\ tips => (role = "applier" /\ "basic_improvements" \in results.keys)
       /\ ~(hire /\ tips)
       /\ (role = "recruiter" /\ "hire_summary" \in results.keys) => (hire /\ ~tips)

\* C23: the theme and the workflow do not interact: a theme toggle leaves the
\* view, the role, both file slots, the results and the pending requests
\* unchanged, and no workflow event (role selection, file selection, Submit,
\* Success, Failure, Reset) changes the theme or its stored value.
C23_ThemeIndependent ==
  [][/\ lastEvent' = "ToggleDark" =>
          UNCHANGED <<view, role, resumeFile, jdFile, results, inflight>>
     /\ lastEvent' \in {"SelectRole", "SelectFile", "Submit", "Success", "Failure", "Reset"} =>
          UNCHANGED <<isDark, storedTheme>>]_vars

\* The theme was switched to dark while a request was pending.
C23_Witness ==
  /\ lastEvent = "ToggleDark"
  /\ isDark
  /\ storedTheme = "dark"
  /\ view = "loading"
  /\ inflight # EmptyBag
  /\ resumeFile # NULL

\* C24: the score animation is a finite sequence: once a frame has run, the
\* value shown is target * (1 - (1 - t)^3) for the normalized time t of that
\* frame, capped at 1; a next frame is requested exactly while t < 1; and the
\* value left when no frame is requested is the target itself.
C24_AnimationEasesToTarget ==
  LET c == circularScore
      elapsed == c.now - c.start
      t == IF elapsed >= duration THEN duration ELSE elapsed
  IN c.start # 0 =>
       /\ c.animated = c.score * (Cube(duration) - Cube(duration - t))
       /\ c.pending <=> elapsed < duration
       /\ ~c.pending => c.animated = c.score * Cube(duration)

\* The animation of a 75 percent score has ended on a frame that came later
\* than the duration.
C24_Witness ==
  /\ circularScore.start # 0
  /\ ~circularScore.pending
  /\ circularScore.now - circularScore.start > duration
  /\ circularScore.score = 75 * PctScale
  /\ circularScore.animated = 75 * PctScale * Cube(duration)

\* C25: a file-too-large message stays on display for its full 5000 ms unless
\* a newer one replaces it: a timeout clears the message only when the timer
\* started with the message on display (the newest one) has run out.
C25_SizeMessageLastsFiveSeconds ==
  [][(lastEvent' = "SizeTimeout" /\ sizeError # NULL) =>
       sizeTimers[Len(sizeTimers)] = 0]_vars

\* C26: while a request is pending, a file selected or dropped (valid or not)
\* changes neither slot.
C26_SlotsFrozenInFlight ==
  [][(inflight # EmptyBag /\ lastEvent' = "SelectFile") =>
       UNCHANGED <<resumeFile, jdFile>>]_vars

\* C27: whenever the view is upload or loading the role is set, also when a
\* request resolves after a Reset.
C27_FormHasRole == view \in {"upload", "loading"} => role # NULL

\* C28: whenever the view is results, the stored report is the answer to a
\* request sent with the current role.
C28_ResultsMatchRole ==
  (view = "results" /\ results # NONE /\ ~crashed) =>
    results = ResultFor(role, results.match_percentage)

\* C29: the could-not-reach-the-server message is shown only when no response
\* arrived: a response with a non-2xx status, whatever its body, is never
\* reported with it.
C29_TransportMessageOnlyWithoutResponse ==
  [][lastEvent' = "Failure" =>
       \A req \in BagToSet(inflight), o \in AllOutcomes :
         (o.kind = "response" /\ ~ResponseOk(o) /\ Resolve(req, o)) =>
           (toast' # NONE /\ toast'.message # MsgTransport)]_vars

====
